---- MODULE Spec2Model ----
(***************************************************************************)
(* Model of the route service of src/src/services/geoService.ts:           *)
(*   - DataService.getRoutes: the process-wide dataset cache with a TTL,   *)
(*     refreshed lazily by the calls themselves (lines 565-608);           *)
(*   - GeoService.findNearestRoutes and GeoService.findPointsInViewport    *)
(*     with the helpers they use (lines 295-564).                          *)
(*                                                                         *)
(* Upstream JSON is untrusted, so values are modelled with their JS kind:  *)
(* a coordinate component is a number, a numeric string or a value that    *)
(* Number() turns into NaN; arrays may be replaced by non-arrays; objects  *)
(* and fields may be missing (null / undefined).                           *)
(*                                                                         *)
(* Numbers are integers (whole degrees).  Division is done in fixed point  *)
(* with FP fractional units, and haversineDistance, whose trigonometry     *)
(* has no integer counterpart, is modelled by the squared planar distance  *)
(* in those units: a metric that is symmetric, non-negative and zero       *)
(* exactly for equal points, which is all the ranking code relies on.      *)
(*                                                                         *)
(* A payload is a JSON array, hence truthy once cached.  A GET and the     *)
(* continuation after its await are one step: the payload is what the      *)
(* upstream serves at that moment, and the upstream may change at any      *)
(* time, so every order of responses and every content is covered.         *)
(*                                                                         *)
(* Spec is DataService.getRoutes under concurrent callers as time passes;  *)
(* GeoSpec is one GeoService query, which calls getRoutes on an empty      *)
(* cache, over a catalogue of well-formed and malformed datasets;          *)
(* QuerySpec is several queries on one cached dataset, which is threaded   *)
(* through each of them as the array they were handed; LockSpec runs       *)
(* getRoutes beside a variant with a lock on the refresh path, which the   *)
(* specification describes and the source does not contain.                *)
(***************************************************************************)
EXTENDS Integers, Sequences, FiniteSets, TLC

VARIABLES
    now,            \* Date.now(), in milliseconds
    upstream,       \* the payload the upstream endpoint currently serves
    cachedData,     \* DataService.cachedData: <<>> is null, <<d>> holds d
    lastFetchTime,  \* DataService.lastFetchTime
    calls,          \* one record per query call: position, locals, outcome
    writes,         \* history: how many times the cache has been written
    locked          \* a DataService with a lock on its refresh path, given
                    \* the same calls, for comparison (LockSpec)

vars == <<now, upstream, cachedData, lastFetchTime, calls, writes, locked>>

----------------------------------------------------------------------------
(* Bounds of the model *)

MaxCalls == 3       \* query calls in one behaviour of Spec
MaxTicks == 3       \* clock advances in one behaviour of Spec
MaxRoutes == 2      \* routes in one dataset of GeoSpec
MaxCount == 3       \* largest count argument of findNearestRoutes

----------------------------------------------------------------------------
(* JS values *)

CACHE_TTL == 1000 * 60 * 10
TimeStep == CACHE_TTL \div 2
Infinity == 1000000000
FP == 100

Num(n) == [k |-> "num", n |-> n]
Str(n) == [k |-> "str", n |-> n]
Bad == [k |-> "bad", n |-> 0]

\* Number(x) for a coordinate component x
IsNaN(c) == c.k = "bad"
ToNumber(c) == c.n

Pos(x, y) == [arr |-> TRUE, c |-> <<Num(x), Num(y)>>]
PosS(x, y) == [arr |-> TRUE, c |-> <<Str(x), Str(y)>>]
Pos3(x, y, z) == [arr |-> TRUE, c |-> <<Num(x), Num(y), Num(z)>>]
PosBad(y) == [arr |-> TRUE, c |-> <<Bad, Num(y)>>]
PosShort(x) == [arr |-> TRUE, c |-> <<Num(x)>>]
PosNotArray == [arr |-> FALSE, c |-> <<>>]

Ring(ps) == [arr |-> TRUE, p |-> ps]
RingNotArray == [arr |-> FALSE, p |-> <<>>]

Coords(rs) == [kind |-> "array", r |-> rs]
CoordsMissing == [kind |-> "missing", r |-> <<>>]
CoordsObject == [kind |-> "object", r |-> <<>>]

Region(type, coordinates) ==
    [present |-> TRUE, geometry |-> TRUE, type |-> type, coordinates |-> coordinates]
RegionNoGeometry ==
    [present |-> TRUE, geometry |-> FALSE, type |-> "none", coordinates |-> CoordsMissing]
RegionMissing ==
    [present |-> FALSE, geometry |-> FALSE, type |-> "none", coordinates |-> CoordsMissing]

Point(id, region) == [present |-> TRUE, id |-> id, region |-> region]
PointMissing == [present |-> FALSE, id |-> 0, region |-> RegionMissing]

Route(id, items) == [isNull |-> FALSE, id |-> id, por |-> [kind |-> "array", items |-> items]]
RouteNoPoints(id) == [isNull |-> FALSE, id |-> id, por |-> [kind |-> "missing", items |-> <<>>]]
RoutePointsObject(id) == [isNull |-> FALSE, id |-> id, por |-> [kind |-> "object", items |-> <<>>]]
RouteNull == [isNull |-> TRUE, id |-> 0, por |-> [kind |-> "missing", items |-> <<>>]]

----------------------------------------------------------------------------
(* GeoService.ensureNumericCoordinates *)

NullRings == [isNull |-> TRUE, rings |-> <<>>]
SomeRings(rs) == [isNull |-> FALSE, rings |-> rs]

RECURSIVE CleanPoints(_)
CleanPoints(ps) ==
    IF ps = <<>> THEN <<>>
    ELSE LET point == Head(ps)
             rest == CleanPoints(Tail(ps))
         IN  IF ~point.arr \/ Len(point.c) < 2 THEN rest
             ELSE IF IsNaN(point.c[1]) \/ IsNaN(point.c[2]) THEN rest
             ELSE <<<<ToNumber(point.c[1]), ToNumber(point.c[2])>>>> \o rest

\* a variant that appends the closing point whether or not the ring is closed
CloseRingAlways(cleanRing) ==
    Append(cleanRing, <<cleanRing[1][1], cleanRing[1][2]>>)

CloseRing(cleanRing) ==
    LET first == cleanRing[1]
        last == cleanRing[Len(cleanRing)]
    IN  IF first[1] # last[1] \/ first[2] # last[2]
        THEN Append(cleanRing, <<first[1], first[2]>>)
        ELSE cleanRing

RECURSIVE CleanRings(_)
CleanRings(rs) ==
    IF rs = <<>> THEN <<>>
    ELSE LET ring == Head(rs)
             rest == CleanRings(Tail(rs))
         IN  IF ~ring.arr THEN rest
             ELSE LET cleanRing == CleanPoints(ring.p)
                  IN  IF Len(cleanRing) >= 3 /\ Len(CloseRing(cleanRing)) >= 4
                      THEN <<CloseRing(cleanRing)>> \o rest
                      ELSE rest

EnsureNumericCoordinates(coordinates) ==
    IF coordinates.kind # "array" THEN NullRings
    ELSE LET result == CleanRings(coordinates.r)
         IN  IF Len(result) > 0 THEN SomeRings(result) ELSE NullRings

----------------------------------------------------------------------------
(* turf: polygon, booleanPointInPolygon, bboxPolygon, booleanIntersects *)

\* turf.polygon throws unless every ring has 4 or more positions and ends
\* with its first position
TurfPolygonOk(rings) ==
    \A i \in 1..Len(rings) :
        Len(rings[i]) >= 4 /\ rings[i][1] = rings[i][Len(rings[i])]

RingEdges(ring) == {<<ring[i], ring[i + 1]>> : i \in 1..(Len(ring) - 1)}

OnSegment(pt, a, b) ==
    /\ pt[2] * (a[1] - b[1]) + a[2] * (b[1] - pt[1]) + b[2] * (pt[1] - a[1]) = 0
    /\ (a[1] - pt[1]) * (b[1] - pt[1]) <= 0
    /\ (a[2] - pt[2]) * (b[2] - pt[2]) <= 0

\* the ray from pt towards +x crosses the edge a-b
RayCrosses(pt, a, b) ==
    /\ (a[2] > pt[2]) # (b[2] > pt[2])
    /\ IF b[2] > a[2]
       THEN (pt[1] - a[1]) * (b[2] - a[2]) < (b[1] - a[1]) * (pt[2] - a[2])
       ELSE (pt[1] - a[1]) * (b[2] - a[2]) > (b[1] - a[1]) * (pt[2] - a[2])

InRing(pt, ring, ignoreBoundary) ==
    IF \E e \in RingEdges(ring) : OnSegment(pt, e[1], e[2])
    THEN ~ignoreBoundary
    ELSE Cardinality({i \in 1..(Len(ring) - 1) :
                         RayCrosses(pt, ring[i], ring[i + 1])}) % 2 = 1

\* inside the outer ring (its boundary included) and in no hole
BooleanPointInPolygon(pt, rings) ==
    /\ InRing(pt, rings[1], FALSE)
    /\ \A h \in 2..Len(rings) : ~InRing(pt, rings[h], TRUE)

BboxPolygon(bbox) ==
    << << <<bbox[1], bbox[2]>>, <<bbox[3], bbox[2]>>, <<bbox[3], bbox[4]>>,
          <<bbox[1], bbox[4]>>, <<bbox[1], bbox[2]>> >> >>

Orient(a, b, c) == (b[1] - a[1]) * (c[2] - a[2]) - (b[2] - a[2]) * (c[1] - a[1])

Sign(n) == IF n > 0 THEN 1 ELSE IF n < 0 THEN -1 ELSE 0

SegmentsIntersect(e, f) ==
    \/ /\ Sign(Orient(e[1], e[2], f[1])) # Sign(Orient(e[1], e[2], f[2]))
       /\ Sign(Orient(f[1], f[2], e[1])) # Sign(Orient(f[1], f[2], e[2]))
    \/ OnSegment(f[1], e[1], e[2])
    \/ OnSegment(f[2], e[1], e[2])
    \/ OnSegment(e[1], f[1], f[2])
    \/ OnSegment(e[2], f[1], f[2])

PolygonEdges(rings) == UNION {RingEdges(rings[i]) : i \in 1..Len(rings)}

\* not booleanDisjoint: a vertex of one outer ring lies in the other polygon,
\* or two boundary segments meet
BooleanIntersects(poly1, poly2) ==
    \/ \E i \in 1..Len(poly1[1]) : BooleanPointInPolygon(poly1[1][i], poly2)
    \/ \E i \in 1..Len(poly2[1]) : BooleanPointInPolygon(poly2[1][i], poly1)
    \/ \E e \in PolygonEdges(poly1) : \E f \in PolygonEdges(poly2) :
           SegmentsIntersect(e, f)

----------------------------------------------------------------------------
(* Distances *)

HaversineDistance(point1, point2) ==
    (point2[1] - point1[1]) * (point2[1] - point1[1])
  + (point2[2] - point1[2]) * (point2[2] - point1[2])

Scaled(p) == <<p[1] * FP, p[2] * FP>>

PointToLineDistance(point, lineStart, lineEnd) ==
    IF lineStart[1] = lineEnd[1] /\ lineStart[2] = lineEnd[2]
    THEN HaversineDistance(Scaled(point), Scaled(lineStart))
    ELSE LET lngDiffPoint == point[1] - lineStart[1]
             latDiffPoint == point[2] - lineStart[2]
             lngDiffLine == lineEnd[1] - lineStart[1]
             latDiffLine == lineEnd[2] - lineStart[2]
             dotProduct == lngDiffPoint * lngDiffLine + latDiffPoint * latDiffLine
             lineLengthSquared == lngDiffLine * lngDiffLine + latDiffLine * latDiffLine
             projectionFactor ==
                 IF lineLengthSquared # 0
                 THEN (dotProduct * FP) \div lineLengthSquared
                 ELSE -FP
             nearest ==
                 IF projectionFactor < 0 THEN Scaled(lineStart)
                 ELSE IF projectionFactor > FP THEN Scaled(lineEnd)
                 ELSE <<lineStart[1] * FP + projectionFactor * lngDiffLine,
                        lineStart[2] * FP + projectionFactor * latDiffLine>>
         IN  HaversineDistance(Scaled(point), nearest)

RECURSIVE MinOver(_, _, _, _)
\* the running minimum of calculateMinimumDistanceManually over one ring,
\* from segment i on
MinOver(userCoords, ring, i, minDistance) ==
    IF i > Len(ring) - 1 THEN minDistance
    ELSE LET distance == PointToLineDistance(userCoords, ring[i], ring[i + 1])
         IN  MinOver(userCoords, ring, i + 1,
                     IF distance < minDistance THEN distance ELSE minDistance)

RECURSIVE MinOverRings(_, _, _)
MinOverRings(userCoords, rings, minDistance) ==
    IF rings = <<>> THEN minDistance
    ELSE MinOverRings(userCoords, Tail(rings),
                      MinOver(userCoords, Head(rings), 1, minDistance))

CalculateMinimumDistanceManually(userPoint, polygonCoordinates) ==
    MinOverRings(userPoint, polygonCoordinates, Infinity)

----------------------------------------------------------------------------
(* GeoService.calculateDistanceToRoute *)

RECURSIVE DistanceLoopLastWins(_, _, _)
\* a variant of the loop that keeps the latest distance instead of the least
DistanceLoopLastWins(items, userPoint, minDistance) ==
    IF items = <<>> THEN minDistance
    ELSE LET point == Head(items)
             region == point.region
             skip == DistanceLoopLastWins(Tail(items), userPoint, minDistance)
         IN  IF ~point.present THEN skip
             ELSE IF ~region.present \/ ~region.geometry
                     \/ region.coordinates.kind = "missing" THEN skip
             ELSE LET cleanCoordinates == EnsureNumericCoordinates(region.coordinates)
                  IN  IF cleanCoordinates.isNull THEN skip
                      ELSE IF ~TurfPolygonOk(cleanCoordinates.rings) THEN skip
                      ELSE IF BooleanPointInPolygon(userPoint, cleanCoordinates.rings)
                           THEN 0
                      ELSE DistanceLoopLastWins(Tail(items), userPoint,
                               CalculateMinimumDistanceManually(
                                   userPoint, cleanCoordinates.rings))

RECURSIVE DistanceLoop(_, _, _)
\* the for-of loop over route.pointsOnRoutes; a missing point makes
\* point.region throw, which the loop's catch turns into `continue`
DistanceLoop(items, userPoint, minDistance) ==
    IF items = <<>> THEN minDistance
    ELSE LET point == Head(items)
             region == point.region
             skip == DistanceLoop(Tail(items), userPoint, minDistance)
         IN  IF ~point.present THEN skip
             ELSE IF ~region.present \/ ~region.geometry
                     \/ region.coordinates.kind = "missing" THEN skip
             ELSE LET cleanCoordinates == EnsureNumericCoordinates(region.coordinates)
                  IN  IF cleanCoordinates.isNull THEN skip
                      ELSE IF ~TurfPolygonOk(cleanCoordinates.rings) THEN skip
                      ELSE IF BooleanPointInPolygon(userPoint, cleanCoordinates.rings)
                           THEN 0
                      ELSE LET distance == CalculateMinimumDistanceManually(
                                               userPoint, cleanCoordinates.rings)
                           IN  DistanceLoop(Tail(items), userPoint,
                                   IF distance < minDistance THEN distance
                                   ELSE minDistance)

\* reading pointsOnRoutes of a null route, or iterating a value that is not
\* iterable, throws a TypeError out of the function
CalculateDistanceToRoute(route, userPoint) ==
    IF route.isNull \/ route.por.kind # "array"
    THEN [threw |-> TRUE, distance |-> 0]
    ELSE [threw |-> FALSE,
          distance |-> DistanceLoop(route.por.items, userPoint, Infinity)]

----------------------------------------------------------------------------
(* GeoService.findNearestRoutes, after getRoutes has returned `routes`.     *)
(* A Route object is identified by its index in the dataset.                *)

\* the callback of routes.map: the catch block formats route.id into its
\* message, which throws again when the route itself is null
RouteWithDistance(routes, i, userPoint) ==
    LET r == CalculateDistanceToRoute(routes[i], userPoint)
    IN  IF ~r.threw THEN [ok |-> TRUE, route |-> i, distance |-> r.distance]
        ELSE IF routes[i].isNull THEN [ok |-> FALSE, route |-> i, distance |-> Infinity]
        ELSE [ok |-> TRUE, route |-> i, distance |-> Infinity]

\* (a, b) => a.distance - b.distance; Infinity - Infinity is NaN, which sort
\* takes as 0
SortCompare(a, b) ==
    IF a.distance = Infinity /\ b.distance = Infinity THEN 0
    ELSE a.distance - b.distance

RECURSIVE Insert(_, _)
Insert(sorted, x) ==
    IF sorted = <<>> THEN <<x>>
    ELSE IF SortCompare(x, Head(sorted)) < 0 THEN <<x>> \o sorted
    ELSE <<Head(sorted)>> \o Insert(Tail(sorted), x)

RECURSIVE SortByDistance(_)
\* Array.prototype.sort: a stable sort by SortCompare
SortByDistance(s) ==
    IF s = <<>> THEN <<>>
    ELSE Insert(SortByDistance(SubSeq(s, 1, Len(s) - 1)), s[Len(s)])

Slice(s, count) == SubSeq(s, 1, IF count < Len(s) THEN count ELSE Len(s))

NearestRoutes(routes, lng, lat, count) ==
    LET userPoint == <<lng, lat>>
        routesWithDistance ==
            [i \in 1..Len(routes) |-> RouteWithDistance(routes, i, userPoint)]
        sorted == SortByDistance(routesWithDistance)
        top == Slice(sorted, count)
    IN  IF \E i \in 1..Len(routes) : ~routesWithDistance[i].ok
        THEN [status |-> "typeerror", items |-> <<>>, ranked |-> <<>>]
        ELSE [status |-> "ok",
              items |-> [i \in 1..Len(top) |-> top[i].route],
              ranked |-> sorted]

----------------------------------------------------------------------------
(* GeoService.findPointsInViewport, after getRoutes has returned `routes`.  *)
(* A Point object is identified by <<route index, entry index>>; the Map    *)
(* is a sequence of entries in insertion order.                             *)

IsValidPolygonCoordinates(coordinates) ==
    /\ coordinates.kind = "array"
    /\ Len(coordinates.r) # 0
    /\ \A i \in 1..Len(coordinates.r) :
         LET ring == coordinates.r[i]
         IN  /\ ring.arr
             /\ Len(ring.p) >= 4
             /\ \A j \in 1..Len(ring.p) :
                  /\ ring.p[j].arr
                  /\ Len(ring.p[j].c) >= 2
                  /\ ring.p[j].c[1].k = "num"
                  /\ ring.p[j].c[2].k = "num"
             /\ ring.p[1].c[1].n = ring.p[Len(ring.p)].c[1].n
             /\ ring.p[1].c[2].n = ring.p[Len(ring.p)].c[2].n

\* the coordinates as turf.polygon receives them
RawRings(coordinates) ==
    [i \in 1..Len(coordinates.r) |->
        [j \in 1..Len(coordinates.r[i].p) |->
            [m \in 1..Len(coordinates.r[i].p[j].c) |-> coordinates.r[i].p[j].c[m].n]]]

IsPointInViewport(point, bboxPolygon) ==
    LET region == point.region
    IN  IF /\ region.present
           /\ region.geometry
           /\ region.type = "Polygon"
           /\ IsValidPolygonCoordinates(region.coordinates)
        THEN IF TurfPolygonOk(RawRings(region.coordinates))
             THEN BooleanIntersects(RawRings(region.coordinates), bboxPolygon)
             ELSE FALSE
        ELSE FALSE

\* JS truthiness of a numeric identifier
Truthy(id) == id # 0

MapHas(map, key) == \E i \in 1..Len(map) : map[i].key = key

MapSet(map, key, value) ==
    IF MapHas(map, key)
    THEN [i \in 1..Len(map) |->
             IF map[i].key = key THEN [key |-> key, point |-> value] ELSE map[i]]
    ELSE Append(map, [key |-> key, point |-> value])

\* a variant of the callback that collects into a list instead of a map
ViewportStepPush(map, point, ref, bboxPolygon) ==
    IF ~point.present THEN map
    ELSE IF IsPointInViewport(point, bboxPolygon) /\ Truthy(point.id)
         THEN Append(map, [key |-> point.id, point |-> ref])
         ELSE map

\* the callback of pointsOnRoutes.forEach for one entry
ViewportStep(map, point, ref, bboxPolygon) ==
    IF ~point.present THEN map
    ELSE IF Truthy(point.id) /\ MapHas(map, point.id) THEN map
    ELSE IF IsPointInViewport(point, bboxPolygon)
         THEN IF Truthy(point.id) THEN MapSet(map, point.id, ref) ELSE map
         ELSE map

RECURSIVE ViewportEntries(_, _, _, _, _)
ViewportEntries(map, items, r, e, bboxPolygon) ==
    IF e > Len(items) THEN map
    ELSE ViewportEntries(ViewportStep(map, items[e], <<r, e>>, bboxPolygon),
                         items, r, e + 1, bboxPolygon)

RECURSIVE ViewportRoutes(_, _, _, _)
\* routes.forEach: route.pointsOnRoutes.forEach throws a TypeError, outside
\* the callback's try, when the route is null or pointsOnRoutes is no array
ViewportRoutes(map, routes, r, bboxPolygon) ==
    IF r > Len(routes) THEN [threw |-> FALSE, map |-> map]
    ELSE IF routes[r].isNull \/ routes[r].por.kind # "array"
         THEN [threw |-> TRUE, map |-> map]
    ELSE ViewportRoutes(
             ViewportEntries(map, routes[r].por.items, r, 1, bboxPolygon),
             routes, r + 1, bboxPolygon)

Min(a, b) == IF a < b THEN a ELSE b
Max(a, b) == IF a > b THEN a ELSE b

PointsInViewport(routes, lng1, lat1, lng2, lat2) ==
    LET bbox == <<Min(lng1, lng2), Min(lat1, lat2), Max(lng1, lng2), Max(lat1, lat2)>>
        bboxPolygon == BboxPolygon(bbox)
        out == ViewportRoutes(<<>>, routes, 1, bboxPolygon)
    IN  IF out.threw
        THEN [status |-> "typeerror", items |-> <<>>, ranked |-> <<>>]
        ELSE [status |-> "ok", items |-> out.map, ranked |-> <<>>]

----------------------------------------------------------------------------
(* What a query leaves in the arrays getRoutes handed to it: the arrays and    *)
(* objects of `routes` are the cached ones, so a write to any of them is a     *)
(* write to the cache.                                                          *)

\* a variant in which the sanitizer closes the stored ring instead of its copy
CoordinatesAfterSanitizeInPlace(coordinates) ==
    IF coordinates.kind # "array" THEN coordinates
    ELSE [coordinates EXCEPT !.r =
             [i \in 1..Len(coordinates.r) |->
                 LET ring == coordinates.r[i]
                     cleanRing == CleanPoints(ring.p)
                 IN  IF ring.arr /\ Len(cleanRing) >= 3 /\ CloseRing(cleanRing) # cleanRing
                     THEN Ring(Append(ring.p, Pos(cleanRing[1][1], cleanRing[1][2])))
                     ELSE ring]]

\* the stored ring list after ensureNumericCoordinates has run over it: every
\* push goes to cleanRing or result, arrays the function created, and a kept
\* point is the new array [x, y]
CoordinatesAfterSanitize(coordinates) == coordinates

\* the region of one entry after the loop body of calculateDistanceToRoute
PointAfterDistance(point) ==
    IF /\ point.present
       /\ point.region.present
       /\ point.region.geometry
       /\ point.region.coordinates.kind # "missing"
    THEN [point EXCEPT !.region.coordinates = CoordinatesAfterSanitize(@)]
    ELSE point

RECURSIVE ItemsAfterDistance(_, _)
\* the entries of a route after calculateDistanceToRoute: the loop stops at
\* the first region that contains the query point
ItemsAfterDistance(items, userPoint) ==
    IF items = <<>> THEN <<>>
    ELSE LET point == Head(items)
             inside == DistanceLoop(<<point>>, userPoint, Infinity) = 0
         IN  <<PointAfterDistance(point)>>
             \o (IF inside THEN Tail(items)
                 ELSE ItemsAfterDistance(Tail(items), userPoint))

RouteAfterDistance(route, userPoint) ==
    IF route.isNull \/ route.por.kind # "array" THEN route
    ELSE [route EXCEPT !.por.items = ItemsAfterDistance(@, userPoint)]

\* the routes map has visited: all of them, or those up to the null route on
\* which the callback throws
Visited(routes) ==
    IF \E i \in 1..Len(routes) : routes[i].isNull
    THEN CHOOSE i \in 1..Len(routes) :
             routes[i].isNull /\ \A j \in 1..(i - 1) : ~routes[j].isNull
    ELSE Len(routes)

\* a variant in which sort is called on `routes` itself
StoredAfterNearestSortsInPlace(routes, lng, lat, count) ==
    LET ranked == NearestRoutes(routes, lng, lat, count).ranked
    IN  IF Len(ranked) = Len(routes)
        THEN [i \in 1..Len(routes) |-> routes[ranked[i].route]]
        ELSE routes

\* `routes` after findNearestRoutes: map returns the new array
\* routesWithDistance, whose elements refer to the routes; sort reorders
\* routesWithDistance, and slice and the second map build new arrays again
StoredAfterNearest(routes, lng, lat, count) ==
    [i \in 1..Len(routes) |->
        IF i <= Visited(routes) THEN RouteAfterDistance(routes[i], <<lng, lat>>)
        ELSE routes[i]]

\* `routes` after findPointsInViewport: the regions are handed to
\* isValidPolygonCoordinates and turf.polygon, which read them, and the
\* points found are entered by reference into a new Map
StoredAfterViewport(routes, lng1, lat1, lng2, lat2) == routes

\* the cached array after the caller of getRoutes has run to its end
StoredAfter(op, args, routes) ==
    IF op = "nearest"
    THEN StoredAfterNearest(routes, args[1], args[2], args[3])
    ELSE IF op = "viewport"
    THEN StoredAfterViewport(routes, args[1], args[2], args[3], args[4])
    ELSE routes

----------------------------------------------------------------------------
(* The payloads the upstream may serve *)

SquareRing(x, y, d) ==
    Ring(<<Pos(x, y), Pos(x, y + d), Pos(x + d, y + d), Pos(x + d, y), Pos(x, y)>>)

\* a closed numeric square, corners (0,0) and (2,2)
RegionSquare == Region("Polygon", Coords(<<SquareRing(0, 0, 2)>>))
\* the same shape further east, corners (4,0) and (6,2)
RegionEast == Region("Polygon", Coords(<<SquareRing(4, 0, 2)>>))
\* an open numeric triangle: the sanitizer closes it, the viewport test rejects it
RegionOpen == Region("Polygon", Coords(<<Ring(<<Pos(4, 4), Pos(6, 4), Pos(4, 6)>>)>>))
\* a closed square whose coordinates arrive as numeric strings, with two
\* entries that are no usable positions
RegionStrings ==
    Region("Polygon",
           Coords(<<Ring(<<PosS(2, 4), PosBad(1), PosS(2, 6), PosS(4, 6), PosNotArray,
                           PosS(4, 4), PosS(2, 4)>>)>>))
\* four times the same position: closed, four points, one distinct vertex
RegionDot == Region("Polygon", Coords(<<Ring(<<Pos(3, 3), Pos(3, 3), Pos(3, 3), Pos(3, 3)>>)>>))
\* a ring left with two usable positions, and a ring that is no array
RegionShort ==
    Region("Polygon",
           Coords(<<Ring(<<Pos(0, 0), PosShort(1), PosBad(2), Pos(1, 1)>>), RingNotArray>>))
\* a closed ring of three positions, then a square with a hole
RegionHole ==
    Region("Polygon",
           Coords(<<Ring(<<Pos(0, 0), Pos(1, 1), Pos(0, 0)>>),
                    SquareRing(0, 0, 6), SquareRing(2, 2, 2)>>))
\* a valid square whose geometry is not typed "Polygon"
RegionOther == Region("MultiPolygon", Coords(<<SquareRing(0, 0, 2)>>))
RegionObject == Region("Polygon", CoordsObject)
\* a closed numeric square whose positions carry a third component
RegionTall ==
    Region("Polygon",
           Coords(<<Ring(<<Pos3(6, 4, 9), Pos3(6, 6, 9), Pos3(8, 6, 9), Pos3(8, 4, 9),
                           Pos3(6, 4, 9)>>)>>))
\* a ring list without rings
RegionEmpty == Region("Polygon", Coords(<<>>))

RouteCatalog ==
    << Route(1, <<Point(1, RegionSquare)>>),
       Route(2, <<Point(2, RegionOpen), Point(1, RegionSquare)>>),
       Route(3, <<Point(0, RegionEast)>>),
       Route(4, <<PointMissing, Point(3, RegionStrings)>>),
       Route(5, <<Point(1, RegionShort), Point(2, RegionDot)>>),
       Route(6, <<Point(4, RegionHole), Point(3, RegionNoGeometry)>>),
       Route(7, <<Point(5, RegionEast), Point(5, RegionEast), Point(6, RegionOther)>>),
       Route(8, <<Point(7, RegionObject), Point(8, RegionMissing)>>),
       Route(9, <<>>),
       RouteNoPoints(10),
       RoutePointsObject(11),
       RouteNull,
       Route(12, <<Point(9, RegionTall), Point(10, RegionEmpty)>>) >>

RECURSIVE SeqsUpTo(_, _)
\* the sequences over S of length n or less
SeqsUpTo(S, n) ==
    IF n = 0 THEN {<<>>}
    ELSE LET shorter == SeqsUpTo(S, n - 1)
         IN  shorter \cup {Append(q, x) : q \in shorter, x \in S}

GeoDatasets ==
    {[i \in 1..Len(q) |-> RouteCatalog[q[i]]] : q \in SeqsUpTo(1..Len(RouteCatalog), MaxRoutes)}

\* two small payloads for the behaviours over time: one route without
\* points, and one route whose pointsOnRoutes is missing
CacheDatasets == { <<RouteCatalog[9]>>, <<RouteCatalog[10]>> }

CallIds == 1..MaxCalls

\* query arguments: (lng, lat) and the two corners of a viewport
GeoPoints == { <<1, 1>>, <<3, 1>>, <<3, 3>>, <<4, 3>> }
GeoBoxes == { <<-1, -1, 3, 3>>, <<7, 3, 5, 1>>, <<8, 8, 9, 9>> }

----------------------------------------------------------------------------
(* DataService.getRoutes and the two queries that call it *)

NoResult == [status |-> "pending", items |-> <<>>, ranked |-> <<>>]
Unavailable == [status |-> "unavailable", items |-> <<>>, ranked |-> <<>>]

IdleCall ==
    [pc |-> "idle", op |-> "none", args |-> <<>>, currentTime |-> 0,
     startCached |-> <<>>, startLast |-> 0, startWrites |-> 0,
     fetch |-> "none", payload |-> <<>>,
     routes |-> [status |-> "pending", data |-> <<>>],
     cachedAfter |-> <<>>, endWrites |-> 0,
     result |-> NoResult]

\* the rest of a query once getRoutes has returned `routes`; a direct caller
\* of getRoutes has nothing more to do
Evaluate(op, args, routes) ==
    IF op = "nearest"
    THEN NearestRoutes(routes, args[1], args[2], args[3])
    ELSE IF op = "viewport"
    THEN PointsInViewport(routes, args[1], args[2], args[3], args[4])
    ELSE NoResult

\* variants of the freshness test with the comparison inverted, and with an
\* age of exactly the TTL still counted as fresh
CacheIsFreshInverted(currentTime) ==
    cachedData # <<>> /\ currentTime - lastFetchTime > CACHE_TTL

CacheIsFreshInclusive(currentTime) ==
    cachedData # <<>> /\ currentTime - lastFetchTime <= CACHE_TTL

\* this.cachedData && currentTime - this.lastFetchTime < this.CACHE_TTL
CacheIsFresh(currentTime) ==
    cachedData # <<>> /\ currentTime - lastFetchTime < CACHE_TTL

\* A caller enters getRoutes: it reads the clock and either returns the cached
\* dataset and runs to its end, or issues the upstream GET and waits.
Begin(c, op, args) ==
    LET currentTime == now
        started == [calls[c] EXCEPT !.op = op, !.args = args,
                                    !.currentTime = currentTime,
                                    !.startCached = cachedData,
                                    !.startLast = lastFetchTime,
                                    !.startWrites = writes]
    IN  IF CacheIsFresh(currentTime)
        THEN [started EXCEPT !.pc = "done",
                             !.routes = [status |-> "returned", data |-> cachedData],
                             !.cachedAfter = <<StoredAfter(op, args, cachedData[1])>>,
                             !.endWrites = writes,
                             !.result = Evaluate(op, args, cachedData[1])]
        ELSE [started EXCEPT !.pc = "awaiting", !.fetch = "sent"]

\* call ids are handed out in order of arrival
Arrives(c) == calls[c].pc = "idle" /\ \A b \in 1..(c - 1) : calls[b].pc # "idle"

\* getRoutes called for its own sake
GetRoutes(c) ==
    /\ Arrives(c)
    /\ calls' = [calls EXCEPT ![c] = Begin(c, "getRoutes", <<>>)]
    /\ UNCHANGED <<now, upstream, cachedData, lastFetchTime, writes, locked>>

FindNearestRoutes(c, lng, lat, count) ==
    /\ Arrives(c)
    /\ calls' = [calls EXCEPT ![c] = Begin(c, "nearest", <<lng, lat, count>>)]
    /\ cachedData' = IF CacheIsFresh(now)
                     THEN <<StoredAfter("nearest", <<lng, lat, count>>, cachedData[1])>>
                     ELSE cachedData
    /\ UNCHANGED <<now, upstream, lastFetchTime, writes, locked>>

FindPointsInViewport(c, lng1, lat1, lng2, lat2) ==
    /\ Arrives(c)
    /\ calls' = [calls EXCEPT ![c] = Begin(c, "viewport", <<lng1, lat1, lng2, lat2>>)]
    /\ cachedData' = IF CacheIsFresh(now)
                     THEN <<StoredAfter("viewport", <<lng1, lat1, lng2, lat2>>,
                                        cachedData[1])>>
                     ELSE cachedData
    /\ UNCHANGED <<now, upstream, lastFetchTime, writes, locked>>

\* getRoutes returns `data` to call c, whose query then runs to its end
Returned(c, fetch, data) ==
    [calls[c] EXCEPT !.pc = "done", !.fetch = fetch,
                     !.routes = [status |-> "returned", data |-> data],
                     !.result = Evaluate(calls[c].op, calls[c].args, data[1])]

\* getRoutes throws to call c, and the query rethrows
Threw(c) ==
    [calls[c] EXCEPT !.pc = "done", !.fetch = "failed",
                     !.routes = [status |-> "threw", data |-> <<>>],
                     !.result = Unavailable]

\* a variant that stores the dataset but keeps the newer of the two timestamps
FetchSucceedsKeepsNewerStamp(c) ==
    /\ calls[c].pc = "awaiting"
    /\ cachedData' = <<StoredAfter(calls[c].op, calls[c].args, upstream)>>
    /\ lastFetchTime' = Max(lastFetchTime, calls[c].currentTime)
    /\ writes' = writes + 1
    /\ calls' = [calls EXCEPT ![c] =
           [Returned(c, "ok", <<upstream>>) EXCEPT !.payload = <<upstream>>,
                                                  !.cachedAfter = cachedData',
                                                  !.endWrites = writes']]
    /\ UNCHANGED <<now, upstream, locked>>

\* the GET resolves: the cache is replaced, stamped with the time the call
\* read when it started, and the new dataset is returned to the caller, which
\* runs to its end over the array now cached
FetchSucceeds(c) ==
    /\ calls[c].pc = "awaiting"
    /\ cachedData' = <<StoredAfter(calls[c].op, calls[c].args, upstream)>>
    /\ lastFetchTime' = calls[c].currentTime
    /\ writes' = writes + 1
    /\ calls' = [calls EXCEPT ![c] =
           [Returned(c, "ok", <<upstream>>) EXCEPT !.payload = <<upstream>>,
                                                  !.cachedAfter = cachedData',
                                                  !.endWrites = writes']]
    /\ UNCHANGED <<now, upstream, locked>>

\* a variant of the rejection path that throws without looking at the cache
FetchFailsAlwaysThrows(c) ==
    /\ calls[c].pc = "awaiting"
    /\ calls' = [calls EXCEPT ![c] =
           [Threw(c) EXCEPT !.cachedAfter = cachedData, !.endWrites = writes]]
    /\ UNCHANGED <<now, upstream, cachedData, lastFetchTime, writes, locked>>

\* a variant of the rejection path that also resets the timestamp
FetchFailsResetsStamp(c) ==
    /\ calls[c].pc = "awaiting"
    /\ lastFetchTime' = 0
    /\ cachedData' = IF cachedData # <<>>
                     THEN <<StoredAfter(calls[c].op, calls[c].args, cachedData[1])>>
                     ELSE cachedData
    /\ calls' = [calls EXCEPT ![c] =
           [(IF cachedData # <<>> THEN Returned(c, "failed", cachedData) ELSE Threw(c))
               EXCEPT !.cachedAfter = cachedData', !.endWrites = writes]]
    /\ UNCHANGED <<now, upstream, writes, locked>>

\* the GET rejects: the cached dataset is returned if there is one, whatever
\* its age, and otherwise getRoutes throws
FetchFails(c) ==
    /\ calls[c].pc = "awaiting"
    /\ cachedData' = IF cachedData # <<>>
                     THEN <<StoredAfter(calls[c].op, calls[c].args, cachedData[1])>>
                     ELSE cachedData
    /\ calls' = [calls EXCEPT ![c] =
           [(IF cachedData # <<>> THEN Returned(c, "failed", cachedData) ELSE Threw(c))
               EXCEPT !.cachedAfter = cachedData', !.endWrites = writes]]
    /\ UNCHANGED <<now, upstream, lastFetchTime, writes, locked>>

\* time passes
Tick ==
    /\ now < TimeStep * (MaxTicks + 1)
    /\ now' = now + TimeStep
    /\ UNCHANGED <<upstream, cachedData, lastFetchTime, calls, writes, locked>>

\* the upstream content changes
UpstreamChange(d) ==
    /\ d # upstream
    /\ upstream' = d
    /\ UNCHANGED <<now, cachedData, lastFetchTime, calls, writes, locked>>

----------------------------------------------------------------------------
(* getRoutes with mutual exclusion around its refresh path, as section 5 of *)
(* the specification allows an implementer to build it: at most one GET is  *)
(* in flight; a call that finds the cache empty or expired while a GET is   *)
(* in flight issues none and is settled with the outcome of that GET.       *)
(* The source has no such variant; it is run beside the code of getRoutes   *)
(* on the same calls, clock, upstream contents and GET outcomes.            *)

LockedIdle ==
    [pc |-> "idle", currentTime |-> 0, joined |-> FALSE,
     routes |-> [status |-> "pending", data |-> <<>>]]

LockedInit ==
    [cachedData |-> <<>>, lastFetchTime |-> 0, holder |-> 0,
     calls |-> [c \in CallIds |-> LockedIdle]]

LockedCacheIsFresh(currentTime) ==
    locked.cachedData # <<>> /\ currentTime - locked.lastFetchTime < CACHE_TTL

\* call c enters: a fresh cache is returned; otherwise the call takes the
\* lock and issues the GET, or joins the GET in flight
LockedBegin(c) ==
    LET started == [locked.calls[c] EXCEPT !.currentTime = now]
    IN  IF LockedCacheIsFresh(now)
        THEN [locked EXCEPT !.calls[c] =
                 [started EXCEPT !.pc = "done",
                                 !.routes = [status |-> "returned",
                                             data |-> locked.cachedData]]]
        ELSE IF locked.holder = 0
        THEN [locked EXCEPT !.holder = c,
                            !.calls[c] = [started EXCEPT !.pc = "fetching"]]
        ELSE [locked EXCEPT !.calls[c] =
                 [started EXCEPT !.pc = "waiting", !.joined = TRUE]]

\* the holder of the lock and the calls that joined its GET get one outcome
LockedSettle(routes) ==
    [c \in CallIds |->
        IF locked.calls[c].pc \in {"fetching", "waiting"}
        THEN [locked.calls[c] EXCEPT !.pc = "done", !.routes = routes]
        ELSE locked.calls[c]]

\* the GET of the holder c resolves
LockedResolved(c) ==
    [locked EXCEPT !.cachedData = <<upstream>>,
                   !.lastFetchTime = locked.calls[c].currentTime,
                   !.holder = 0,
                   !.calls = LockedSettle([status |-> "returned", data |-> <<upstream>>])]

\* the GET of the holder rejects
LockedRejected ==
    [locked EXCEPT !.holder = 0,
                   !.calls = LockedSettle(
                       IF locked.cachedData # <<>>
                       THEN [status |-> "returned", data |-> locked.cachedData]
                       ELSE [status |-> "threw", data |-> <<>>])]

\* a call of getRoutes reaches both services
LockGetRoutes(c) ==
    /\ Arrives(c)
    /\ calls' = [calls EXCEPT ![c] = Begin(c, "getRoutes", <<>>)]
    /\ locked' = LockedBegin(c)
    /\ UNCHANGED <<now, upstream, cachedData, lastFetchTime, writes>>

\* the upstream answers the GET that call c issued, in each service in which
\* c has one in flight
LockFetchSucceeds(c) ==
    /\ calls[c].pc = "awaiting" \/ locked.holder = c
    /\ IF calls[c].pc = "awaiting"
       THEN /\ cachedData' = <<upstream>>
            /\ lastFetchTime' = calls[c].currentTime
            /\ writes' = writes + 1
            /\ calls' = [calls EXCEPT ![c] =
                   [Returned(c, "ok", <<upstream>>) EXCEPT !.payload = <<upstream>>,
                                                          !.cachedAfter = cachedData',
                                                          !.endWrites = writes']]
       ELSE UNCHANGED <<cachedData, lastFetchTime, writes, calls>>
    /\ locked' = IF locked.holder = c THEN LockedResolved(c) ELSE locked
    /\ UNCHANGED <<now, upstream>>

\* the GET that call c issued fails, in each service in which c has one in
\* flight
LockFetchFails(c) ==
    /\ calls[c].pc = "awaiting" \/ locked.holder = c
    /\ IF calls[c].pc = "awaiting"
       THEN calls' = [calls EXCEPT ![c] =
                [(IF cachedData # <<>> THEN Returned(c, "failed", cachedData)
                  ELSE Threw(c))
                    EXCEPT !.cachedAfter = cachedData, !.endWrites = writes]]
       ELSE UNCHANGED calls
    /\ locked' = IF locked.holder = c THEN LockedRejected ELSE locked
    /\ UNCHANGED <<now, upstream, cachedData, lastFetchTime, writes>>

----------------------------------------------------------------------------
(* Spec: concurrent calls of DataService.getRoutes, over time.              *)

Init ==
    /\ now = TimeStep
    /\ upstream \in CacheDatasets
    /\ cachedData = <<>>
    /\ lastFetchTime = 0
    /\ calls = [c \in CallIds |-> IdleCall]
    /\ writes = 0
    /\ locked = LockedInit

Next ==
    \/ \E c \in CallIds : GetRoutes(c)
    \/ \E c \in CallIds : FetchSucceeds(c)
    \/ \E c \in CallIds : FetchFails(c)
    \/ Tick
    \/ \E d \in CacheDatasets : UpstreamChange(d)

Spec == Init /\ [][Next]_vars

(* GeoSpec: one query of GeoService, which calls getRoutes on an empty      *)
(* cache, over every dataset and argument of the bounded sets.              *)

GeoInit ==
    /\ now = TimeStep
    /\ upstream \in GeoDatasets
    /\ cachedData = <<>>
    /\ lastFetchTime = 0
    /\ calls = [c \in CallIds |-> IdleCall]
    /\ writes = 0
    /\ locked = LockedInit

GeoNext ==
    \/ \E q \in GeoPoints, count \in 1..MaxCount : FindNearestRoutes(1, q[1], q[2], count)
    \/ \E b \in GeoBoxes : FindPointsInViewport(1, b[1], b[2], b[3], b[4])
    \/ FetchSucceeds(1)
    \/ FetchFails(1)

GeoSpec == GeoInit /\ [][GeoNext]_vars

(* LockSpec: the calls of Spec, sent to getRoutes and to the variant with   *)
(* the lock alike.                                                          *)

LockNext ==
    \/ \E c \in CallIds : LockGetRoutes(c)
    \/ \E c \in CallIds : LockFetchSucceeds(c)
    \/ \E c \in CallIds : LockFetchFails(c)
    \/ Tick
    \/ \E d \in CacheDatasets : UpstreamChange(d)

LockSpec == Init /\ [][LockNext]_vars

(* QuerySpec: GeoService queries arriving one after another or together,    *)
(* served from one dataset of an upstream that answers, while it is fresh.  *)

\* a dataset whose nearer route comes second and has an open ring, and one
\* with a null route ahead of a route with numeric strings
QueryDatasets ==
    { <<RouteCatalog[3], RouteCatalog[2]>>,
      <<RouteCatalog[12], RouteCatalog[4]>> }

\* the arguments of the queries: a point inside a region of some datasets and
\* a point outside all of them, a viewport over the western regions and one
\* over the eastern ones
QueryPoints == { <<1, 1>>, <<4, 3>> }
QueryBoxes == { <<-1, -1, 3, 3>>, <<7, 3, 5, 1>> }

QueryInit ==
    /\ now = TimeStep
    /\ upstream \in QueryDatasets
    /\ cachedData = <<>>
    /\ lastFetchTime = 0
    /\ calls = [c \in CallIds |-> IdleCall]
    /\ writes = 0
    /\ locked = LockedInit

QueryNext ==
    \/ \E c \in CallIds, q \in QueryPoints : FindNearestRoutes(c, q[1], q[2], MaxCount)
    \/ \E c \in CallIds, b \in QueryBoxes : FindPointsInViewport(c, b[1], b[2], b[3], b[4])
    \/ \E c \in CallIds : FetchSucceeds(c)

QuerySpec == QueryInit /\ [][QueryNext]_vars

----------------------------------------------------------------------------
(* Properties of the dataset cache, stated over Spec *)

Done(c) == calls[c].pc = "done"
GotRoutes(c) == calls[c].routes.status = "returned"
Hit(c) == Done(c) /\ calls[c].fetch = "none"
\* what the call saw when it entered getRoutes
FreshAtStart(c) ==
    calls[c].startCached # <<>> /\ calls[c].currentTime - calls[c].startLast < CACHE_TTL
Distance(a, b) == IF a < b THEN b - a ELSE a - b

\* C1 as stated: any two getRoutes calls that start within one TTL of each
\* other return the identical dataset, in every interleaving.
C1_SameWithinTTL ==
    \A c, d \in CallIds :
        (GotRoutes(c) /\ GotRoutes(d)
            /\ Distance(calls[c].currentTime, calls[d].currentTime) < CACHE_TTL)
        => calls[c].routes.data = calls[d].routes.data

\* C1 amended: a call that enters getRoutes while a dataset is cached with an
\* age below the TTL returns that cached dataset without fetching, whatever
\* the upstream serves by then, so two such calls with no cache write between
\* their starts return the identical dataset; a call whose fetch succeeds
\* found the cache empty or expired, and returns and caches what it fetched.
C1_FreshServedFromCache ==
    /\ \A c \in CallIds :
          (Done(c) /\ FreshAtStart(c))
          => /\ calls[c].fetch = "none"
             /\ GotRoutes(c)
             /\ calls[c].routes.data = calls[c].startCached
    /\ \A c, d \in CallIds :
          (Done(c) /\ Done(d) /\ FreshAtStart(c) /\ FreshAtStart(d)
              /\ calls[c].startWrites = calls[d].startWrites)
          => calls[c].routes.data = calls[d].routes.data
    /\ \A c \in CallIds :
          calls[c].fetch = "ok"
          => /\ ~FreshAtStart(c)
             /\ calls[c].routes.data = calls[c].payload
             /\ calls[c].cachedAfter = calls[c].payload

\* a call that cached a dataset, a later call served that dataset from the
\* cache, and a call after expiry that fetched and returned another one
C1_Witness ==
    \E c, d, e \in CallIds :
        /\ calls[c].fetch = "ok"
        /\ Hit(d)
        /\ calls[d].startWrites = calls[c].endWrites
        /\ calls[d].currentTime > calls[c].currentTime
        /\ calls[d].routes.data = calls[c].routes.data
        /\ calls[e].fetch = "ok"
        /\ calls[e].startCached = calls[c].routes.data
        /\ calls[e].routes.data # calls[c].routes.data

\* C2: a call whose fetch failed returns the cached dataset when one has ever
\* been cached, whatever its age, and throws when none has; a call fails with
\* "dataset unavailable" exactly when its fetch failed and nothing is cached.
C2_StaleOnFailure ==
    /\ (cachedData # <<>>) <=> (writes > 0)
    /\ \A c \in CallIds :
          Done(c) =>
            /\ (calls[c].fetch = "failed" /\ calls[c].endWrites > 0)
               => /\ GotRoutes(c)
                  /\ calls[c].routes.data # <<>>
                  /\ calls[c].routes.data = calls[c].cachedAfter
            /\ (calls[c].routes.status = "threw")
               <=> (calls[c].fetch = "failed" /\ calls[c].endWrites = 0)
            /\ (calls[c].result.status = "unavailable")
               <=> (calls[c].routes.status = "threw")

\* one call failed on an empty cache, and a later one was handed a dataset
\* older than the TTL when its fetch failed
C2_Witness ==
    \E c, d \in CallIds :
        /\ Done(c) /\ calls[c].routes.status = "threw"
        /\ Done(d) /\ calls[d].fetch = "failed" /\ GotRoutes(d)
        /\ calls[d].currentTime - lastFetchTime > CACHE_TTL

\* C3: a call issues a fetch exactly when it finds no cached dataset or one
\* whose age is the TTL or more; otherwise it returns the cached dataset; and
\* the cache is written by successful calls only.
C3_LazyRefresh ==
    /\ \A c \in CallIds :
          calls[c].pc # "idle"
          => /\ (calls[c].fetch # "none")
                <=> (calls[c].startCached = <<>>
                       \/ calls[c].currentTime - calls[c].startLast >= CACHE_TTL)
             /\ calls[c].fetch = "none"
                => (GotRoutes(c) /\ calls[c].routes.data = calls[c].startCached)
    /\ writes = Cardinality({c \in CallIds : calls[c].fetch = "ok"})
    /\ \/ writes = 0 /\ cachedData = <<>> /\ lastFetchTime = 0
       \/ \E c \in CallIds :
             /\ calls[c].fetch = "ok"
             /\ cachedData = calls[c].payload
             /\ lastFetchTime = calls[c].currentTime

\* a call that found the cache exactly one TTL old and fetched, and a call
\* that found it half a TTL old and did not
C3_Witness ==
    \E c, d \in CallIds :
        /\ calls[c].startCached # <<>>
        /\ calls[c].currentTime - calls[c].startLast = CACHE_TTL
        /\ calls[c].fetch # "none"
        /\ Hit(d)
        /\ calls[d].currentTime - calls[d].startLast = TimeStep

\* the calls whose fetch succeeded, each of which wrote the cache once
Writers == {c \in CallIds : calls[c].fetch = "ok"}

\* C12: calls that find the cache empty or expired each issue their own
\* fetch, and the cache holds what the latest successful one wrote: in every
\* state the cached dataset and lastFetchTime are the payload and the start
\* time of one and the same call, the latest writer (or both are initial),
\* and a call served from the cache read such a pair.
C12_LastWriterWins ==
    /\ \A c \in CallIds :
          (calls[c].pc # "idle" /\ ~FreshAtStart(c)) => calls[c].fetch # "none"
    /\ \A c, d \in Writers : c # d => calls[c].endWrites # calls[d].endWrites
    /\ IF Writers = {}
       THEN cachedData = <<>> /\ lastFetchTime = 0
       ELSE \E c \in Writers :
               /\ \A d \in Writers : calls[d].endWrites <= calls[c].endWrites
               /\ cachedData = calls[c].payload
               /\ lastFetchTime = calls[c].currentTime
    /\ \A d \in CallIds :
          Hit(d) => \E c \in Writers :
                       /\ calls[c].endWrites = calls[d].startWrites
                       /\ calls[d].startCached = calls[c].payload
                       /\ calls[d].startLast = calls[c].currentTime
                       /\ calls[d].routes.data = calls[c].payload

\* two calls raced past the cache at different times and fetched different
\* datasets, the one that started later finishing first; the cache holds the
\* pair of the other, and a third call was served that pair
C12_Witness ==
    \E c, d, e \in CallIds :
        /\ c \in Writers /\ d \in Writers
        /\ calls[c].startWrites = calls[d].startWrites
        /\ calls[c].currentTime < calls[d].currentTime
        /\ calls[d].endWrites < calls[c].endWrites
        /\ calls[c].payload # calls[d].payload
        /\ cachedData = calls[c].payload
        /\ lastFetchTime = calls[c].currentTime
        /\ Hit(e)
        /\ calls[e].startWrites = calls[c].endWrites

\* C15 as stated: lastFetchTime never decreases: no successful refresh
\* replaces the cached pair by the pair of a call that started earlier than
\* the call that wrote the pair it replaces.
C15_LastFetchTimeNeverDecreases == [][lastFetchTime' >= lastFetchTime]_vars

\* C15 amended: lastFetchTime is never later than the clock, and it decreases
\* in one case only: a call that entered getRoutes before the cached pair was
\* written, and started earlier than the writer of that pair, completes its
\* fetch after it; the cache then holds that call's dataset and start time.
C15_DecreasesOnlyWhenOvertaken ==
    [][ /\ lastFetchTime' <= now'
        /\ lastFetchTime' < lastFetchTime
           => \E c \in CallIds :
                 /\ calls[c].pc = "awaiting"
                 /\ calls'[c].fetch = "ok"
                 /\ calls[c].startWrites < writes
                 /\ calls[c].currentTime < lastFetchTime
                 /\ lastFetchTime' = calls[c].currentTime
                 /\ cachedData' = calls'[c].payload ]_vars

\* the cache holds the pair of a call that started before the writer of the
\* pair it replaced, and the clock has since passed the TTL of the older stamp
C15_Witness ==
    \E c, d \in Writers :
        /\ calls[d].endWrites = calls[c].endWrites + 1
        /\ calls[d].currentTime < calls[c].currentTime
        /\ lastFetchTime = calls[d].currentTime
        /\ now - lastFetchTime >= CACHE_TTL
        /\ now - calls[c].currentTime < CACHE_TTL

----------------------------------------------------------------------------
(* Properties of the two queries, stated over GeoSpec *)

\* the dataset getRoutes handed to call c
RoutesOf(c) == calls[c].routes.data[1]
NearestDone(c) == Done(c) /\ GotRoutes(c) /\ calls[c].op = "nearest"
ViewportDone(c) == Done(c) /\ GotRoutes(c) /\ calls[c].op = "viewport"
UserPointOf(c) == <<calls[c].args[1], calls[c].args[2]>>

\* C4 as stated: once getRoutes has returned a dataset, whatever its records
\* look like, the query completes; "dataset unavailable" is the only failure.
C4_OnlyUnavailableFails ==
    \A c \in CallIds : (Done(c) /\ GotRoutes(c)) => calls[c].result.status = "ok"

\* the distance the ranking uses for a route: +infinity when its evaluation
\* throws
RankDistance(route, userPoint) ==
    LET r == CalculateDistanceToRoute(route, userPoint)
    IN  IF r.threw THEN Infinity ELSE r.distance

IsRanking(routes, userPoint, count, items) ==
    /\ Len(items) = Min(count, Len(routes))
    /\ \A i \in 1..Len(items) : items[i] \in 1..Len(routes)
    /\ \A i, j \in 1..Len(items) : i # j => items[i] # items[j]
    /\ \A i \in 1..(Len(items) - 1) :
          RankDistance(routes[items[i]], userPoint)
              <= RankDistance(routes[items[i + 1]], userPoint)
    /\ \A i \in 1..Len(items) : \A r \in 1..Len(routes) :
          (\A j \in 1..Len(items) : items[j] # r)
          => RankDistance(routes[r], userPoint)
                 >= RankDistance(routes[items[i]], userPoint)

\* C5 as stated: over every dataset of n routes and every count k >= 1 the
\* query returns min(k, n) distinct routes of the dataset in non-decreasing
\* order of distance, none of those left out being strictly nearer.
C5_RanksNearest ==
    \A c \in CallIds :
        NearestDone(c)
        => /\ calls[c].result.status = "ok"
           /\ IsRanking(RoutesOf(c), UserPointOf(c), calls[c].args[3],
                        calls[c].result.items)

\* C6 as stated: a route whose distance evaluation throws gets distance
\* +infinity and stays in the ranking, behind every route with a finite
\* distance, is returned when the count reaches it, and never aborts the
\* query.
C6_ThrowingRouteRankedLast ==
    \A c \in CallIds :
        NearestDone(c)
        => \A r \in 1..Len(RoutesOf(c)) :
              CalculateDistanceToRoute(RoutesOf(c)[r], UserPointOf(c)).threw
              => /\ calls[c].result.status = "ok"
                 /\ \E i \in 1..Len(calls[c].result.ranked) :
                       LET ranked == calls[c].result.ranked
                       IN  /\ ranked[i].route = r
                           /\ ranked[i].distance = Infinity
                           /\ \A j \in 1..Len(ranked) :
                                 ranked[j].distance < Infinity => j < i
                           /\ i <= calls[c].args[3]
                              => calls[c].result.items[i] = r

\* the entries of a route whose region survives sanitization and polygon
\* construction, with the rings the polygon is built from
UsableRings(point) ==
    IF /\ point.present
       /\ point.region.present
       /\ point.region.geometry
       /\ point.region.coordinates.kind # "missing"
       /\ ~EnsureNumericCoordinates(point.region.coordinates).isNull
       /\ TurfPolygonOk(EnsureNumericCoordinates(point.region.coordinates).rings)
    THEN <<EnsureNumericCoordinates(point.region.coordinates).rings>>
    ELSE <<>>

Usable(route) == {e \in 1..Len(route.por.items) : UsableRings(route.por.items[e]) # <<>>}

EdgeDistances(route, userPoint) ==
    UNION { {PointToLineDistance(userPoint, seg[1], seg[2]) :
                seg \in PolygonEdges(UsableRings(route.por.items[e])[1])} :
            e \in Usable(route) }

Least(S) == CHOOSE x \in S : \A y \in S : x <= y

RECURSIVE OnlyUsable(_)
OnlyUsable(items) ==
    IF items = <<>> THEN <<>>
    ELSE IF UsableRings(Head(items)) # <<>>
         THEN <<Head(items)>> \o OnlyUsable(Tail(items))
         ELSE OnlyUsable(Tail(items))

\* C7: when calculateDistanceToRoute returns, it returns 0 if the query point
\* is inside a usable region at any position, otherwise the least
\* point-to-segment distance over all edges of all rings of all usable
\* regions, and +infinity exactly when the route has no usable region; the
\* unusable regions do not change the result.
C7_DistanceToRoute ==
    \A c \in CallIds :
        NearestDone(c)
        => \A r \in 1..Len(RoutesOf(c)) :
              LET route == RoutesOf(c)[r]
                  q == UserPointOf(c)
                  out == CalculateDistanceToRoute(route, q)
                  inside == \E e \in Usable(route) :
                              BooleanPointInPolygon(q, UsableRings(route.por.items[e])[1])
              IN  ~out.threw
                  => /\ inside => out.distance = 0
                     /\ (~inside /\ Usable(route) # {})
                        => out.distance = Least(EdgeDistances(route, q))
                     /\ (out.distance = Infinity) <=> (Usable(route) = {})
                     /\ out = CalculateDistanceToRoute(
                                  Route(route.id, OnlyUsable(route.por.items)), q)
                     /\ calls[c].result.status = "ok"
                        => \E i \in 1..Len(calls[c].result.ranked) :
                              /\ calls[c].result.ranked[i].route = r
                              /\ calls[c].result.ranked[i].distance = out.distance

\* a route whose first usable region lies away from the query point and
\* whose second one contains it, and a route with two usable regions away
\* from the point, the first one the nearer
C7_Witness ==
    \E c \in CallIds :
        /\ NearestDone(c)
        /\ \E r \in 1..Len(RoutesOf(c)) :
              LET route == RoutesOf(c)[r]
                  q == UserPointOf(c)
              IN  /\ ~CalculateDistanceToRoute(route, q).threw
                  /\ Cardinality(Usable(route)) >= 2
                  /\ ~BooleanPointInPolygon(
                         q, UsableRings(route.por.items[Least(Usable(route))])[1])
                  /\ CalculateDistanceToRoute(route, q).distance = 0
        /\ \E r \in 1..Len(RoutesOf(c)) :
              LET route == RoutesOf(c)[r]
                  q == UserPointOf(c)
                  d == CalculateDistanceToRoute(route, q)
              IN  /\ ~d.threw
                  /\ d.distance > 0 /\ d.distance < Infinity
                  /\ Len(route.por.items) > Cardinality(Usable(route))

\* the Point object a result entry refers to
PointAt(routes, ref) == routes[ref[1]].por.items[ref[2]]

\* C8: findPointsInViewport never returns two Points with the same identifier.
C8_UniqueIdentifiers ==
    \A c \in CallIds :
        (ViewportDone(c) /\ calls[c].result.status = "ok")
        => LET items == calls[c].result.items
           IN  \A i, j \in 1..Len(items) :
                  i # j => PointAt(RoutesOf(c), items[i].point).id
                             # PointAt(RoutesOf(c), items[j].point).id

ViewportOf(c) ==
    BboxPolygon(<<Min(calls[c].args[1], calls[c].args[3]),
                  Min(calls[c].args[2], calls[c].args[4]),
                  Max(calls[c].args[1], calls[c].args[3]),
                  Max(calls[c].args[2], calls[c].args[4])>>)

\* a result holding a point whose identifier is carried by entries of two
\* routes and by two entries of one route, all of them inside the viewport
C8_Witness ==
    \E c \in CallIds :
        /\ ViewportDone(c) /\ calls[c].result.status = "ok"
        /\ \E i \in 1..Len(calls[c].result.items) :
              LET routes == RoutesOf(c)
                  id == calls[c].result.items[i].key
                  inView(r, e) ==
                      /\ routes[r].por.items[e].present
                      /\ routes[r].por.items[e].id = id
                      /\ IsPointInViewport(routes[r].por.items[e], ViewportOf(c))
              IN  /\ \E r \in 1..Len(routes) :
                        \E e, f \in 1..Len(routes[r].por.items) :
                            e # f /\ inView(r, e) /\ inView(r, f)
                  /\ \E r, t \in 1..Len(routes) :
                        /\ r # t
                        /\ \E e \in 1..Len(routes[r].por.items) : inView(r, e)
                        /\ \E e \in 1..Len(routes[t].por.items) : inView(t, e)

\* a region that is a syntactically valid closed polygon meeting the viewport
Qualifies(point, bboxPolygon) ==
    /\ point.region.present
    /\ point.region.geometry
    /\ point.region.type = "Polygon"
    /\ IsValidPolygonCoordinates(point.region.coordinates)
    /\ BooleanIntersects(RawRings(point.region.coordinates), bboxPolygon)

\* C9 as stated: the result holds exactly the qualifying points: a Point
\* referenced by a route is in it if and only if its region is a valid closed
\* polygon that intersects the bounding box, whatever its identifier.
C9_ExactlyQualifying ==
    \A c \in CallIds :
        ViewportDone(c)
        => /\ calls[c].result.status = "ok"
           /\ \A r \in 1..Len(RoutesOf(c)) :
                 \A e \in 1..Len(RoutesOf(c)[r].por.items) :
                    LET point == RoutesOf(c)[r].por.items[e]
                    IN  point.present
                        => ((\E i \in 1..Len(calls[c].result.items) :
                                PointAt(RoutesOf(c), calls[c].result.items[i].point) = point)
                            <=> Qualifies(point, ViewportOf(c)))

\* the ring lists of the regions of a dataset
CoordinatesIn(routes) ==
    UNION { {routes[r].por.items[e].region.coordinates :
                e \in 1..Len(routes[r].por.items)} : r \in 1..Len(routes) }

Vertices(ring) == {ring[i] : i \in 1..Len(ring)}

\* the input rings with three or more distinct usable points
SoundRings(coordinates) ==
    {i \in 1..Len(coordinates.r) :
        /\ coordinates.r[i].arr
        /\ Cardinality(Vertices(CleanPoints(coordinates.r[i].p))) >= 3}

\* C10 as stated: ensureNumericCoordinates drops every ring with fewer than 3
\* distinct usable points, so every ring of a non-null result has 3 or more
\* distinct vertices, is closed and has 4 or more points; the result is null
\* exactly when no ring survives.
C10_DropsDegenerateRings ==
    \A c \in CallIds :
        NearestDone(c)
        => \A coordinates \in CoordinatesIn(RoutesOf(c)) :
              LET out == EnsureNumericCoordinates(coordinates)
              IN  /\ Len(out.rings) = Cardinality(SoundRings(coordinates))
                  /\ \A i \in 1..Len(out.rings) :
                        /\ Cardinality(Vertices(out.rings[i])) >= 3
                        /\ out.rings[i][1] = out.rings[i][Len(out.rings[i])]
                        /\ Len(out.rings[i]) >= 4
                  /\ out.isNull <=> (Len(out.rings) = 0)

\* a ring list in which every ring is an array of positions with numeric
\* components only and ends with its first position
ClosedNumeric(coordinates) ==
    /\ coordinates.kind = "array"
    /\ \A i \in 1..Len(coordinates.r) :
         LET ring == coordinates.r[i]
         IN  /\ ring.arr
             /\ Len(ring.p) >= 1
             /\ \A j \in 1..Len(ring.p) :
                  /\ ring.p[j].arr
                  /\ \A m \in 1..Len(ring.p[j].c) : ring.p[j].c[m].k = "num"
             /\ ring.p[1].c = ring.p[Len(ring.p)].c

\* ... in which, moreover, there is a ring, every ring has 4 or more
\* positions and every position is a pair
ClosedNumericPolygon(coordinates) ==
    /\ ClosedNumeric(coordinates)
    /\ Len(coordinates.r) >= 1
    /\ \A i \in 1..Len(coordinates.r) :
         /\ Len(coordinates.r[i].p) >= 4
         /\ \A j \in 1..Len(coordinates.r[i].p) : Len(coordinates.r[i].p[j].c) = 2

\* the rings a sanitizer result holds, as a ring list to sanitize again
AsCoordinates(rings) ==
    Coords([i \in 1..Len(rings) |->
               Ring([j \in 1..Len(rings[i]) |-> Pos(rings[i][j][1], rings[i][j][2])])])

\* C11 as stated: ensureNumericCoordinates returns every ring list of closed
\* rings with numeric coordinates unchanged in content: same rings, same
\* points, same order.
C11_ClosedNumericUnchanged ==
    \A c \in CallIds :
        NearestDone(c)
        => \A coordinates \in CoordinatesIn(RoutesOf(c)) :
              ClosedNumeric(coordinates)
              => EnsureNumericCoordinates(coordinates) = SomeRings(RawRings(coordinates))

\* C11 amended: ensureNumericCoordinates returns unchanged in content every
\* non-empty ring list whose rings are closed, have 4 or more positions and
\* consist of pairs of numbers; and applied to its own non-null output it
\* returns that output.
C11_SanitizerIdempotent ==
    \A c \in CallIds :
        NearestDone(c)
        => \A coordinates \in CoordinatesIn(RoutesOf(c)) :
              LET out == EnsureNumericCoordinates(coordinates)
              IN  /\ ClosedNumericPolygon(coordinates)
                     => out = SomeRings(RawRings(coordinates))
                  /\ ~out.isNull
                     => /\ ClosedNumericPolygon(AsCoordinates(out.rings))
                        /\ EnsureNumericCoordinates(AsCoordinates(out.rings)) = out

\* a dataset with a ring list the sanitizer returns as it is, and one it had
\* to change (an open ring, numeric strings, unusable entries) before its
\* output became a fixed point
C11_Witness ==
    \E c \in CallIds :
        /\ NearestDone(c)
        /\ \E coordinates \in CoordinatesIn(RoutesOf(c)) :
              ClosedNumericPolygon(coordinates)
        /\ \E coordinates \in CoordinatesIn(RoutesOf(c)) :
              /\ coordinates.kind = "array"
              /\ ~ClosedNumeric(coordinates)
              /\ ~EnsureNumericCoordinates(coordinates).isNull

----------------------------------------------------------------------------
(* Properties of query evaluation on the cache, stated over QuerySpec *)

----------------------------------------------------------------------------
(* The lock on the refresh path, stated over LockSpec *)

\* what a caller of getRoutes gets to see
Outcome(routes) == <<routes.status, routes.data>>

Uncontended == \A c \in CallIds : ~locked.calls[c].joined

====
